---------------------------- MODULE Spec2Model ----------------------------
(***************************************************************************)
(* The Kanban board of CasaTrack (KanbanScreen.tsx): a long-press lifts a  *)
(* property card, a pan gesture moves it, the release is resolved against  *)
(* the registered column extents (corrected by the horizontal scroll       *)
(* offset) and a status change is sent to the backend with                 *)
(* updatePropertyStatus.  The backend (Supabase) is modelled as a table   *)
(* id -> status that serves requests one at a time; requests and their     *)
(* responses are separate steps, so responses may arrive in any order.     *)
(* The pan's callbacks run on the UI thread and hand handleDragEnd over to *)
(* the JS thread: a call is queued together with the render it was taken   *)
(* from, and runs later.                                                   *)
(***************************************************************************)
EXTENDS Integers, Sequences, FiniteSets, Bags, TLC

----------------------------------------------------------------------------
(* Bounds of the model *)

NumCards == 2
NumCols == 3
MaxCalls == 2
MaxLoads == 2
MaxOtherEdits == 1
MaxQueuedEnds == 2
NumResolveCols == 2

----------------------------------------------------------------------------
(* Program constants *)

PROPERTY_STATUSES ==
    << "Seen", "Interested", "Contacted Realtor", "Visited", "On Hold",
       "Irrelevant", "Purchased" >>

IsTerminal(status) == status = "Irrelevant" \/ status = "Purchased"

availableStatuses == SelectSeq(PROPERTY_STATUSES, LAMBDA s : ~IsTerminal(s))

ColumnWidth == 280
ColumnMarginRight == 12
ColumnsPaddingHorizontal == 16

----------------------------------------------------------------------------
(* Helpers *)

Min(a, b) == IF a < b THEN a ELSE b

Range(seq) == { seq[i] : i \in 1..Len(seq) }

Cards == 1..NumCards

(* The columns the model renders: the first NumCols board columns. *)
RenderedCols == 1..Min(NumCols, Len(availableStatuses))

BoardStatuses == { availableStatuses[i] : i \in RenderedCols }

(* The statuses a property record can hold in the model. *)
Statuses == BoardStatuses \cup { "Irrelevant", "Purchased" }

(* layout.x of the i-th column inside the horizontal ScrollView's content *)
ColumnX(i) == ColumnsPaddingHorizontal + (i - 1) * (ColumnWidth + ColumnMarginRight)

NoStatus == "none"

NoProperty == [id |-> 0, status |-> NoStatus]

NoCall == [id |-> 0, status |-> NoStatus, issued |-> 0]

(* Inputs: the page y of a card's centre, the cumulative translations a    *)
(* pan gesture reports and the offsets the board is scrolled to.           *)
CardPageYs == { 300 }
Translations == { <<-292, 0>>, <<0, 40>>, <<144, 0>>, <<292, -40>> }
ScrollOffsets == { 0, 100 }

----------------------------------------------------------------------------
VARIABLES
    properties,        \* useState<Property[]>: the board's card list
    loading,           \* useState(true)
    refreshing,        \* useState(false)
    draggingProperty,  \* useState<Property | null>: the drag session's card
    columnLayouts,     \* useState<Record<status, {x, width}>>, in key order
    scrollX,           \* useState(0)
    dragX,             \* shared value: live pointer x
    dragY,             \* shared value: live pointer y
    startX,            \* shared value: x origin of the current pan
    startY,            \* shared value: y origin of the current pan
    dragScale,         \* shared value, times 10 (10 = 1.0, 11 = 1.1)
    touch,             \* "none" | "card" (finger held on a card) | "pan"
    endQueue,          \* the runOnJS(handleDragEnd) calls queued by onEnd
    backend,           \* the properties table: id -> status
    calls,             \* bag of updatePropertyStatus calls not yet settled
    issued,            \* number of updatePropertyStatus calls issued so far
    loads,             \* getProperties calls issued and not settled
    loadsIssued,       \* number of getProperties calls issued so far
    otherEdits,        \* status edits made on other screens so far
    alerts,            \* number of Alert.alert dialogs shown
    lastRelease,       \* what the last handleDragEnd decided
    atPress,           \* the card, list, offset and origin at the last long-press
    lastRejected,      \* the call rejected last, and the calls issued by then
    opacity            \* shared value of each card, times 10 (3 = 0.3)

vars == << properties, loading, refreshing, draggingProperty, columnLayouts,
           scrollX, dragX, dragY, startX, startY, dragScale, touch,
           endQueue, backend, calls, issued, loads,
           loadsIssued, otherEdits, alerts, lastRelease, atPress,
           lastRejected, opacity >>

gestureVars == << dragX, dragY, startX, startY, dragScale, touch,
                  endQueue >>
netVars == << backend, calls, issued, loads, loadsIssued, otherEdits >>

----------------------------------------------------------------------------
(* Pure functions *)

(* The card list getProperties returns: every record, in created_at order *)
(* (the model creates card 1 last). *)
getPropertiesResult(table) ==
    [ i \in Cards |-> [id |-> i, status |-> table[i]] ]

(* Variant: nothing is filtered out. *)
filtered_all(data) == data

(* data.filter(p => p.status !== 'Irrelevant' && p.status !== 'Purchased') *)
filtered(data) == SelectSeq(data, LAMBDA p : ~IsTerminal(p.status))

(* Variant: a card that is not in the list is added to it. *)
withStatus_upsert(prev, propertyId, newStatus) ==
    IF \E i \in 1..Len(prev) : prev[i].id = propertyId
    THEN [ i \in 1..Len(prev) |->
             IF prev[i].id = propertyId
             THEN [prev[i] EXCEPT !.status = newStatus]
             ELSE prev[i] ]
    ELSE Append(prev, [id |-> propertyId, status |-> newStatus])

(* Variant: the test of the map is inverted. *)
withStatus_others(prev, propertyId, newStatus) ==
    [ i \in 1..Len(prev) |->
        IF prev[i].id # propertyId
        THEN [prev[i] EXCEPT !.status = newStatus]
        ELSE prev[i] ]

(* prev.map(p => (p.id === propertyId ? { ...p, status: newStatus } : p)) *)
withStatus(prev, propertyId, newStatus) ==
    [ i \in 1..Len(prev) |->
        IF prev[i].id = propertyId
        THEN [prev[i] EXCEPT !.status = newStatus]
        ELSE prev[i] ]

(* Variant: the scroll offset is left out of the correction. *)
columnMatches_noScroll(layout, currentX, scrollOffset) ==
    currentX >= layout.x /\ currentX <= layout.x + layout.width

(* Variant: only the left end of the extent is scroll-corrected. *)
columnMatches_rightUncorrected(layout, currentX, scrollOffset) ==
    LET adjustedX == layout.x - scrollOffset
    IN  currentX >= adjustedX /\ currentX <= layout.x + layout.width

(* Variant: the right end of the extent is excluded. *)
columnMatches_halfOpen(layout, currentX, scrollOffset) ==
    LET adjustedX == layout.x - scrollOffset
    IN  currentX >= adjustedX /\ currentX < adjustedX + layout.width

(* The predicate of the find() in handleDragEnd. *)
columnMatches(layout, currentX, scrollOffset) ==
    LET adjustedX == layout.x - scrollOffset
    IN  currentX >= adjustedX /\ currentX <= adjustedX + layout.width

(* Variant: a pointer that no extent contains is given to the first       *)
(* registered column. *)
targetColumn_clamped(currentX, layouts, scrollOffset) ==
    LET hits == { i \in 1..Len(layouts) :
                    columnMatches(layouts[i], currentX, scrollOffset) }
    IN  IF hits = {}
        THEN IF Len(layouts) = 0 THEN NoStatus ELSE layouts[1].status
        ELSE layouts[CHOOSE i \in hits : \A j \in hits : i <= j].status

(* Variant: a pointer that no registered extent contains is resolved by    *)
(* the place the style sheet gives the columns. *)
targetColumn_byStyle(currentX, layouts, scrollOffset) ==
    LET hits == { i \in 1..Len(layouts) :
                    columnMatches(layouts[i], currentX, scrollOffset) }
        styled == { i \in RenderedCols :
                      /\ currentX + scrollOffset >= ColumnX(i)
                      /\ currentX + scrollOffset <= ColumnX(i) + ColumnWidth }
    IN  IF hits # {}
        THEN layouts[CHOOSE i \in hits : \A j \in hits : i <= j].status
        ELSE IF styled # {}
             THEN availableStatuses[CHOOSE i \in styled : TRUE]
             ELSE NoStatus

(* Object.entries(columnLayouts).find(...): the status of the first entry  *)
(* in key order whose extent contains currentX, or NoStatus. *)
targetColumn(currentX, layouts, scrollOffset) ==
    LET hits == { i \in 1..Len(layouts) :
                    columnMatches(layouts[i], currentX, scrollOffset) }
    IN  IF hits = {} THEN NoStatus
        ELSE layouts[CHOOSE i \in hits : \A j \in hits : i <= j].status

(* Variant: every registration adds an entry. *)
withLayout_append(prev, status, x, width) ==
    Append(prev, [status |-> status, x |-> x, width |-> width])

(* { ...prev, [status]: { x, width } }: an existing key keeps its place,   *)
(* a new key goes last. *)
withLayout(prev, status, x, width) ==
    IF \E i \in 1..Len(prev) : prev[i].status = status
    THEN [ i \in 1..Len(prev) |->
             IF prev[i].status = status
             THEN [status |-> status, x |-> x, width |-> width]
             ELSE prev[i] ]
    ELSE Append(prev, [status |-> status, x |-> x, width |-> width])

(* The cards the board renders and their status in the list. *)
ListIds == { properties[i].id : i \in 1..Len(properties) }

StatusIn(list, c) ==
    IF \E i \in 1..Len(list) : list[i].id = c
    THEN list[CHOOSE i \in 1..Len(list) : list[i].id = c].status
    ELSE NoStatus

PropertyOf(c) == properties[CHOOSE i \in 1..Len(properties) : properties[i].id = c]

(* <KanbanCard key={property.id} .../> inside the column of its status: a  *)
(* card whose status in the list changes is mounted anew in another        *)
(* column (or unmounted), and a card mounts with useSharedValue(1). *)
remounted(prev, next, shared) ==
    [ c \in Cards |->
        IF StatusIn(next, c) # StatusIn(prev, c) THEN 10 ELSE shared[c] ]

(* The JS thread runs its callbacks in the order they were queued: a      *)
(* callback that arrives while handleDragEnd calls are queued runs after   *)
(* them. *)
jsThreadFree == endQueue = << >>

----------------------------------------------------------------------------
(* Initial state: the screen has mounted, its focus effect has issued the  *)
(* first getProperties call and the spinner is showing.  The table holds   *)
(* one property after the other in the board's columns, left to right.     *)

InitialTable ==
    [ c \in Cards |-> availableStatuses[((c - 1) % Cardinality(RenderedCols)) + 1] ]

Init ==
    /\ properties = << >>
    /\ loading = TRUE
    /\ refreshing = FALSE
    /\ draggingProperty = NoProperty
    /\ columnLayouts = << >>
    /\ scrollX = 0
    /\ dragX = 0
    /\ dragY = 0
    /\ startX = 0
    /\ startY = 0
    /\ dragScale = 10
    /\ touch = "none"
    /\ endQueue = << >>
    /\ backend = InitialTable
    /\ calls = EmptyBag
    /\ issued = 0
    /\ loads = { [n |-> 1, phase |-> "sent", data |-> << >>] }
    /\ loadsIssued = 1
    /\ otherEdits = 0
    /\ alerts = 0
    /\ lastRelease = "none"
    /\ lastRejected = NoCall
    /\ opacity = [c \in Cards |-> 10]
    /\ atPress = [id |-> 0, list |-> << >>, scrollX |-> 0, x |-> 0, y |-> 0]

----------------------------------------------------------------------------
(* Loading the list: loadProperties, getProperties and its response *)

(* loadProperties up to its await: getProperties() is issued. *)
loadProperties ==
    /\ loadsIssued < MaxLoads
    /\ loadsIssued' = loadsIssued + 1
    /\ loads' = loads \cup { [n |-> loadsIssued + 1, phase |-> "sent", data |-> << >>] }

(* useFocusEffect: the board gains focus again (a tab switch, or coming    *)
(* back from a property's detail screen). *)
focusEffect ==
    /\ jsThreadFree
    /\ touch = "none"
    /\ loadProperties
    /\ UNCHANGED << properties, loading, refreshing, draggingProperty,
                    columnLayouts, scrollX, gestureVars, backend, calls,
                    issued, otherEdits, alerts,
                    lastRejected, opacity, lastRelease, atPress >>

(* onRefresh: pull-to-refresh on the rendered board. *)
onRefresh ==
    /\ jsThreadFree
    /\ ~loading
    /\ touch = "none"
    /\ draggingProperty = NoProperty
    /\ refreshing' = TRUE
    /\ loadProperties
    /\ UNCHANGED << properties, loading, draggingProperty, columnLayouts,
                    scrollX, gestureVars, backend, calls, issued, otherEdits,
                    alerts, lastRejected, opacity, lastRelease, atPress >>

(* The backend answers a getProperties request: the select succeeds with   *)
(* the table as it is now, or fails. *)
getPropertiesServe(l) ==
    /\ l.phase = "sent"
    /\ \/ loads' = (loads \ {l}) \cup
                     { [l EXCEPT !.phase = "ok", !.data = getPropertiesResult(backend)] }
       \/ loads' = (loads \ {l}) \cup { [l EXCEPT !.phase = "err"] }
    /\ UNCHANGED << properties, loading, refreshing, draggingProperty,
                    columnLayouts, scrollX, gestureVars, backend, calls,
                    issued, loadsIssued, otherEdits, alerts,
                    lastRejected, opacity, lastRelease, atPress >>

(* Variant: the flags are cleared after the try block, not in a finally. *)
loadPropertiesSettled_noFinally(l) ==
    /\ jsThreadFree
    /\ l.phase # "sent"
    /\ loads' = loads \ {l}
    /\ properties' = IF l.phase = "ok" THEN filtered(l.data) ELSE properties
    /\ opacity' = remounted(properties, properties', opacity)
    /\ loading' = IF l.phase = "ok" THEN FALSE ELSE loading
    /\ refreshing' = IF l.phase = "ok" THEN FALSE ELSE refreshing
    /\ UNCHANGED << draggingProperty, columnLayouts, scrollX, gestureVars,
                    backend, calls, issued, loadsIssued, otherEdits, alerts,
                    lastRejected, lastRelease, atPress >>

(* loadProperties after its await: try { setProperties(filtered) }         *)
(* catch { console.error } finally { setLoading(false);                    *)
(* setRefreshing(false) } *)
loadPropertiesSettled(l) ==
    /\ jsThreadFree
    /\ l.phase # "sent"
    /\ loads' = loads \ {l}
    /\ properties' = IF l.phase = "ok" THEN filtered(l.data) ELSE properties
    /\ opacity' = remounted(properties, properties', opacity)
    /\ loading' = FALSE
    /\ refreshing' = FALSE
    /\ UNCHANGED << draggingProperty, columnLayouts, scrollX, gestureVars,
                    backend, calls, issued, loadsIssued, otherEdits, alerts,
                    lastRejected,
                    lastRelease, atPress >>

(* Another screen of the app (the property's detail screen) stores a new   *)
(* status for a property. *)
otherScreenStatusChange(c, s) ==
    /\ otherEdits < MaxOtherEdits
    /\ touch = "none"
    /\ backend[c] # s
    /\ backend' = [backend EXCEPT ![c] = s]
    /\ otherEdits' = otherEdits + 1
    /\ UNCHANGED << properties, loading, refreshing, draggingProperty,
                    columnLayouts, scrollX, gestureVars, calls, issued, loads,
                    loadsIssued, alerts, lastRejected, opacity, lastRelease, atPress >>

----------------------------------------------------------------------------
(* Layout and scrolling *)

(* onColumnLayout(status, event), with event.nativeEvent.layout = {x,      *)
(* width}. *)
onColumnLayout(status, x, width) ==
    /\ jsThreadFree
    /\ ~loading
    /\ columnLayouts' = withLayout(columnLayouts, status, x, width)
    /\ UNCHANGED << properties, loading, refreshing, draggingProperty,
                    scrollX, gestureVars, netVars, alerts,
                    lastRejected, opacity, lastRelease, atPress >>

(* Variant: the board scrolls during a session as well. *)
scrollEnabled_always == TRUE

(* scrollEnabled={!draggingProperty} *)
scrollEnabled == draggingProperty = NoProperty

(* onScroll={(e) => setScrollX(e.nativeEvent.contentOffset.x)} *)
onScroll(offset) ==
    /\ jsThreadFree
    /\ ~loading
    /\ scrollEnabled
    /\ touch = "none"
    /\ scrollX' = offset
    /\ UNCHANGED << properties, loading, refreshing, draggingProperty,
                    columnLayouts, gestureVars, netVars, alerts,
                    lastRejected, opacity, lastRelease, atPress >>

----------------------------------------------------------------------------
(* The status change: handleStatusChange, updatePropertyStatus *)

(* handleStatusChange up to its await: updatePropertyStatus(propertyId,    *)
(* newStatus) is issued. *)
handleStatusChange(propertyId, newStatus) ==
    /\ issued' = issued + 1
    /\ calls' = calls (+) SetToBag({ [id |-> propertyId,
                              status |-> newStatus, phase |-> "sent"] })
    /\ UNCHANGED properties

(* The backend answers an updatePropertyStatus request: the update is      *)
(* applied and the row returned, or the request fails and nothing is       *)
(* applied. *)
updatePropertyStatusServe(k) ==
    /\ k.phase = "sent"
    /\ \/ /\ backend' = [backend EXCEPT ![k.id] = k.status]
          /\ calls' = (calls (-) SetToBag({k})) (+) SetToBag({ [k EXCEPT !.phase = "ok"] })
       \/ /\ backend' = backend
          /\ calls' = (calls (-) SetToBag({k})) (+) SetToBag({ [k EXCEPT !.phase = "err"] })
    /\ UNCHANGED << properties, loading, refreshing, draggingProperty,
                    columnLayouts, scrollX, gestureVars, issued, loads,
                    loadsIssued, otherEdits, alerts,
                    lastRejected, opacity, lastRelease, atPress >>

(* Variant: the success path raises the alert as well. *)
handleStatusChangeResolved_alerts(k) ==
    /\ jsThreadFree
    /\ k.phase = "ok"
    /\ calls' = calls (-) SetToBag({k})
    /\ properties' = withStatus(properties, k.id, k.status)
    /\ opacity' = remounted(properties, properties', opacity)
    /\ alerts' = alerts + 1
    /\ UNCHANGED << loading, refreshing, draggingProperty, columnLayouts,
                    scrollX, gestureVars, backend, issued, loads, loadsIssued,
                    otherEdits, lastRelease, atPress, lastRejected >>

(* handleStatusChange after its await resolved: setProperties(prev =>      *)
(* prev.map(...)) *)
handleStatusChangeResolved(k) ==
    /\ jsThreadFree
    /\ k.phase = "ok"
    /\ calls' = calls (-) SetToBag({k})
    /\ properties' = withStatus(properties, k.id, k.status)
    /\ opacity' = remounted(properties, properties', opacity)
    /\ UNCHANGED << loading, refreshing, draggingProperty, columnLayouts,
                    scrollX, gestureVars, backend, issued, loads, loadsIssued,
                    otherEdits, alerts, lastRejected, lastRelease, atPress >>

(* Variant: the list is updated on the failure path too. *)
handleStatusChangeRejected_writes(k) ==
    /\ jsThreadFree
    /\ k.phase = "err"
    /\ calls' = calls (-) SetToBag({k})
    /\ properties' = withStatus(properties, k.id, k.status)
    /\ opacity' = remounted(properties, properties', opacity)
    /\ alerts' = alerts + 1
    /\ lastRejected' = [id |-> k.id, status |-> k.status, issued |-> issued]
    /\ UNCHANGED << loading, refreshing, draggingProperty, columnLayouts,
                    scrollX, gestureVars, backend, issued, loads, loadsIssued,
                    otherEdits, lastRelease, atPress >>

(* handleStatusChange after its await rejected: console.error and          *)
(* Alert.alert('Error', 'Failed to update property status').  The call is *)
(* remembered as the one rejected last, with the number of calls issued    *)
(* so far. *)
handleStatusChangeRejected(k) ==
    /\ jsThreadFree
    /\ k.phase = "err"
    /\ calls' = calls (-) SetToBag({k})
    /\ alerts' = alerts + 1
    /\ lastRejected' = [id |-> k.id, status |-> k.status, issued |-> issued]
    /\ UNCHANGED << properties, loading, refreshing, draggingProperty,
                    columnLayouts, scrollX, gestureVars, backend, issued,
                    loads, loadsIssued, otherEdits, lastRelease, atPress,
                    opacity >>

----------------------------------------------------------------------------
(* The drag session *)

(* Variant: every card is disabled while a call is unsettled. *)
isDragging_orPending(c) == draggingProperty.id = c \/ calls # EmptyBag

(* isDragging={draggingProperty?.id === property.id} *)
isDragging(c) == draggingProperty.id = c

(* handleDragStart(property, x, y) *)
handleDragStart(property, x, y) ==
    /\ draggingProperty' = property
    /\ dragX' = x
    /\ dragY' = y
    /\ startX' = x
    /\ startY' = y
    /\ dragScale' = 11

(* The page x of the centre of a card of the i-th column: the column's    *)
(* layout x, the column content's padding and half the card's width, less  *)
(* the board's scroll offset. *)
CardCentreX(i, offset) == ColumnX(i) + ColumnWidth \div 2 - offset

ColumnOf(status) == CHOOSE i \in RenderedCols : availableStatuses[i] = status

(* KanbanCard.onLongPress: the Touchable fires after the finger has rested *)
(* on card c; opacity.value = withSpring(0.3); measure() reports the       *)
(* card's page position and its callback calls onDragStart(property,       *)
(* pageX + width / 2, pageY + height / 2).                                 *)
onLongPress(c) ==
    /\ jsThreadFree
    /\ ~loading
    /\ c \in ListIds
    /\ touch = "none"
    /\ ~isDragging(c)
    /\ issued < MaxCalls
    /\ touch' = "card"
    /\ opacity' = [opacity EXCEPT ![c] = 3]
    /\ \E y \in CardPageYs :
         handleDragStart(PropertyOf(c),
                         CardCentreX(ColumnOf(PropertyOf(c).status), scrollX),
                         y)
    /\ lastRelease' = "none"
    /\ atPress' = [ id |-> c, list |-> properties, scrollX |-> scrollX,
                    x |-> startX', y |-> startY' ]
    /\ UNCHANGED << properties, loading, refreshing, columnLayouts, scrollX,
                    endQueue, netVars, alerts, lastRejected >>

(* The finger leaves the card before the pan gesture has activated:        *)
(* KanbanCard.onPressOut of the card the finger is on: if (!isDragging)    *)
(* opacity.value = withSpring(1).  No pan callback runs. *)
onPressOut ==
    /\ jsThreadFree
    /\ touch = "card"
    /\ touch' = "none"
    /\ \E c \in Cards :
         /\ c = atPress.id
         /\ opacity' = IF ~isDragging(c)
                        THEN [opacity EXCEPT ![c] = 10]
                        ELSE opacity
    /\ UNCHANGED << properties, loading, refreshing, draggingProperty,
                    columnLayouts, scrollX, dragX, dragY, startX, startY,
                    dragScale, endQueue, netVars, alerts, lastRejected,
                    lastRelease, atPress >>

(* Gesture.Pan().enabled(!!draggingProperty) *)
panEnabled == draggingProperty # NoProperty

(* A handleDragEnd call is waiting to run on the JS thread. *)
pendingEnd == endQueue # << >>

(* panGesture.onStart: the pan activates, from the finger that is resting  *)
(* on the card or from a new touch on the board.  The gesture stays        *)
(* enabled until a render without a session has been committed, so a pan   *)
(* can start while the handleDragEnd of the previous pan is still queued. *)
panOnStart ==
    /\ panEnabled
    /\ touch \in { "none", "card" }
    /\ Len(endQueue) < MaxQueuedEnds
    /\ touch' = "pan"
    /\ startX' = dragX
    /\ startY' = dragY
    /\ UNCHANGED << properties, loading, refreshing, draggingProperty,
                    columnLayouts, scrollX, dragX, dragY, dragScale,
                    endQueue, netVars, alerts,
                    lastRejected, opacity, lastRelease, atPress >>

(* panGesture.onUpdate(event) *)
panOnUpdate(translationX, translationY) ==
    /\ panEnabled
    /\ touch = "pan"
    /\ dragX' = startX + translationX
    /\ dragY' = startY + translationY
    /\ UNCHANGED << properties, loading, refreshing, draggingProperty,
                    columnLayouts, scrollX, startX, startY, dragScale, touch,
                    endQueue, netVars, alerts,
                    lastRejected, opacity, lastRelease, atPress >>

(* The handleDragEnd of the current render: the function closes over the   *)
(* render's draggingProperty, columnLayouts and scrollX.  success is the   *)
(* second argument of the onEnd callback: TRUE when the finger was lifted, *)
(* FALSE when the platform cancelled the pan. *)
queuedEnd(success) ==
    [ draggingProperty |-> draggingProperty,
      columnLayouts |-> columnLayouts,
      scrollX |-> scrollX,
      success |-> success ]

(* panGesture.onEnd: the active pan finishes, by release or because the    *)
(* platform cancels it; runOnJS(handleDragEnd)() is queued. *)
panOnEnd(success) ==
    /\ touch = "pan"
    /\ touch' = "none"
    /\ endQueue' = Append(endQueue, queuedEnd(success))
    /\ UNCHANGED << properties, loading, refreshing, draggingProperty,
                    columnLayouts, scrollX, dragX, dragY, startX, startY,
                    dragScale, netVars, alerts,
                    lastRejected, opacity, lastRelease, atPress >>

(* Variant: a target that was rejected last is not tried again. *)
isStatusChange_unlessRejected(dragging, newStatus) ==
    dragging.status # newStatus /\ newStatus # lastRejected.status

(* if (draggingProperty.status !== newStatus) *)
isStatusChange(dragging, newStatus) == dragging.status # newStatus

(* handleDragEnd, run on the JS thread: the oldest queued call runs, with  *)
(* the state of the render it was queued from and the live dragX.  Its     *)
(* reset starts three springs (dragX.value = withSpring(0), ...), which    *)
(* move the shared values afterwards. *)
handleDragEnd ==
    /\ endQueue # << >>
    /\ endQueue' = Tail(endQueue)
    /\ LET render == Head(endQueue)
       IN  IF render.draggingProperty = NoProperty
           THEN UNCHANGED << properties, draggingProperty, calls, issued,
                             lastRelease >>
           ELSE LET newStatus == targetColumn(dragX, render.columnLayouts,
                                              render.scrollX)
                IN  /\ IF /\ newStatus # NoStatus
                          /\ isStatusChange(render.draggingProperty, newStatus)
                       THEN /\ handleStatusChange(render.draggingProperty.id,
                                                  newStatus)
                            /\ lastRelease' = "commit"
                       ELSE /\ UNCHANGED << properties, calls, issued >>
                            /\ lastRelease' = IF newStatus = NoStatus
                                              THEN "miss" ELSE "noop"
                    /\ draggingProperty' = NoProperty
    /\ UNCHANGED << loading, refreshing, columnLayouts, scrollX, dragX, dragY,
                    startX, startY, dragScale, touch, backend, loads,
                    loadsIssued, otherEdits, alerts, lastRejected, opacity, atPress >>

(* The springs handleDragEnd has started are running: no session holds the *)
(* shared values and they are not at rest. *)
springsRunning ==
    /\ draggingProperty = NoProperty
    /\ << dragX, dragY, dragScale >> # << 0, 0, 10 >>

(* withSpring(0), withSpring(0) and withSpring(1) come to rest.  Queued    *)
(* handleDragEnd calls run back to back, before the springs have moved. *)
withSpringSettled ==
    /\ springsRunning
    /\ jsThreadFree
    /\ dragX' = 0
    /\ dragY' = 0
    /\ dragScale' = 10
    /\ UNCHANGED << properties, loading, refreshing, draggingProperty,
                    columnLayouts, scrollX, startX, startY, touch, endQueue,
                    netVars, alerts, lastRejected, opacity, lastRelease, atPress >>

----------------------------------------------------------------------------
Next ==
    \/ \E l \in loads : getPropertiesServe(l)
    \/ \E l \in loads : loadPropertiesSettled(l)
    \/ \E i \in RenderedCols :
          onColumnLayout(availableStatuses[i], ColumnX(i), ColumnWidth)
    \/ \E offset \in ScrollOffsets : onScroll(offset)
    \/ \E k \in BagToSet(calls) : updatePropertyStatusServe(k)
    \/ \E k \in BagToSet(calls) : handleStatusChangeResolved(k)
    \/ \E k \in BagToSet(calls) : handleStatusChangeRejected(k)
    \/ \E c \in Cards : onLongPress(c)
    \/ onPressOut
    \/ panOnStart
    \/ \E t \in Translations : panOnUpdate(t[1], t[2])
    \/ panOnEnd(TRUE)
    \/ panOnEnd(FALSE)
    \/ handleDragEnd
    \/ withSpringSettled

Spec == Init /\ [][Next]_vars

(* The board together with reloads and edits made on other screens. *)
NextReload ==
    \/ Next
    \/ focusEffect
    \/ onRefresh
    \/ \E c \in Cards, s \in Statuses : otherScreenStatusChange(c, s)

SpecReload == Init /\ [][NextReload]_vars

(* The board under fair scheduling: a queued callback runs, a request is   *)
(* answered and its answer delivered, and a finger that is down comes up   *)
(* again (or starts to pan).  Whether the user touches the screen again is *)
(* left open. *)
FairSpec ==
    /\ Spec
    /\ WF_vars(handleDragEnd)
    /\ WF_vars(withSpringSettled)
    /\ WF_vars(panOnEnd(TRUE) \/ panOnEnd(FALSE))
    /\ WF_vars(onPressOut)
    /\ WF_vars(\E l \in loads : getPropertiesServe(l))
    /\ WF_vars(\E l \in loads : loadPropertiesSettled(l))
    /\ WF_vars(\E k \in BagToSet(calls) : updatePropertyStatusServe(k))
    /\ WF_vars(\E k \in BagToSet(calls) : handleStatusChangeResolved(k))
    /\ WF_vars(\E k \in BagToSet(calls) : handleStatusChangeRejected(k))

----------------------------------------------------------------------------
(* Resolution as a function of its inputs: a release is resolved for every *)
(* registry of extents, scroll offset and pointer x of a small grid.       *)

ExtentXs == { 0, 10, 20 }
ExtentWidths == { 0, 10 }
ResolveOffsets == { 0, 5, 10 }
ResolvePointers == { -5, -1, 0, 1, 5, 9, 10, 11, 15, 20, 21, 25, 30, 31, 35 }

(* The columns of the grid: the first NumResolveCols board columns. *)
ResolveStatuses ==
    { availableStatuses[i] : i \in 1..Min(NumResolveCols, Len(availableStatuses)) }

Extents == [ status : ResolveStatuses, x : ExtentXs, width : ExtentWidths ]

(* The registries: sequences of extents with one entry per status at most. *)
Registries ==
    { r \in UNION { [1..n -> Extents] : n \in 0..Cardinality(ResolveStatuses) } :
        \A i, j \in 1..Len(r) : i # j => r[i].status # r[j].status }

InitResolve ==
    /\ properties = filtered(getPropertiesResult(InitialTable))
    /\ loading = FALSE
    /\ refreshing = FALSE
    /\ draggingProperty \in Range(properties)
    /\ columnLayouts \in Registries
    /\ scrollX \in ResolveOffsets
    /\ dragX \in ResolvePointers
    /\ dragY \in CardPageYs
    /\ startX = 0
    /\ startY = dragY
    /\ dragScale = 11
    /\ touch = "none"
    /\ endQueue = << [ draggingProperty |-> draggingProperty,
                       columnLayouts |-> columnLayouts,
                       scrollX |-> scrollX,
                       success |-> TRUE ] >>
    /\ backend = InitialTable
    /\ calls = EmptyBag
    /\ issued = 0
    /\ loads = {}
    /\ loadsIssued = 1
    /\ otherEdits = 0
    /\ alerts = 0
    /\ lastRelease = "none"
    /\ lastRejected = NoCall
    /\ opacity = [c \in Cards |-> IF c = draggingProperty.id THEN 3 ELSE 10]
    /\ atPress = [ id |-> draggingProperty.id, list |-> properties,
                   scrollX |-> scrollX, x |-> startX, y |-> startY ]

NextResolve == handleDragEnd \/ withSpringSettled

SpecResolve == InitResolve /\ [][NextResolve]_vars

----------------------------------------------------------------------------
(* Registration as a function of its inputs: on the loaded board, columns  *)
(* report every extent of the grid, in any order and any number of times,  *)
(* and the board is scrolled. *)

InitLayout ==
    /\ properties = filtered(getPropertiesResult(InitialTable))
    /\ loading = FALSE
    /\ refreshing = FALSE
    /\ draggingProperty = NoProperty
    /\ columnLayouts = << >>
    /\ scrollX = 0
    /\ dragX = 0
    /\ dragY = 0
    /\ startX = 0
    /\ startY = 0
    /\ dragScale = 10
    /\ touch = "none"
    /\ endQueue = << >>
    /\ backend = InitialTable
    /\ calls = EmptyBag
    /\ issued = 0
    /\ loads = {}
    /\ loadsIssued = 1
    /\ otherEdits = 0
    /\ alerts = 0
    /\ lastRelease = "none"
    /\ lastRejected = NoCall
    /\ opacity = [c \in Cards |-> 10]
    /\ atPress = [id |-> 0, list |-> << >>, scrollX |-> 0, x |-> 0, y |-> 0]

NextLayout ==
    \/ \E e \in Extents : onColumnLayout(e.status, e.x, e.width)
    \/ \E offset \in ResolveOffsets : onScroll(offset)

SpecLayout == InitLayout /\ [][NextLayout]_vars

----------------------------------------------------------------------------
(* One release among reloads: the board is loaded, every column has        *)
(* reported its layout from left to right, and the pan of a drag has just  *)
(* ended over the centre of one of the columns.  The queued handleDragEnd  *)
(* runs, the board is reloaded (focus, pull-to-refresh) and other screens  *)
(* store statuses, in any order. *)

RECURSIVE RegisteredUpTo(_)
RegisteredUpTo(n) ==
    IF n = 0 THEN << >>
    ELSE withLayout(RegisteredUpTo(n - 1), availableStatuses[n], ColumnX(n),
                    ColumnWidth)

InitPending ==
    /\ properties = filtered(getPropertiesResult(InitialTable))
    /\ loading = FALSE
    /\ refreshing = FALSE
    /\ draggingProperty \in Range(properties)
    /\ columnLayouts = RegisteredUpTo(Cardinality(RenderedCols))
    /\ scrollX = 0
    /\ dragX \in { CardCentreX(i, 0) : i \in RenderedCols }
    /\ dragY \in CardPageYs
    /\ startX = CardCentreX(ColumnOf(draggingProperty.status), 0)
    /\ startY = dragY
    /\ dragScale = 11
    /\ touch = "none"
    /\ endQueue = << [ draggingProperty |-> draggingProperty,
                       columnLayouts |-> columnLayouts,
                       scrollX |-> scrollX,
                       success |-> TRUE ] >>
    /\ backend = InitialTable
    /\ calls = EmptyBag
    /\ issued = 0
    /\ loads = {}
    /\ loadsIssued = 1
    /\ otherEdits = 0
    /\ alerts = 0
    /\ lastRelease = "none"
    /\ lastRejected = NoCall
    /\ opacity = [c \in Cards |-> IF c = draggingProperty.id THEN 3 ELSE 10]
    /\ atPress = [ id |-> draggingProperty.id, list |-> properties,
                   scrollX |-> scrollX, x |-> startX, y |-> startY ]

NextPending ==
    \/ handleDragEnd
    \/ withSpringSettled
    \/ focusEffect
    \/ onRefresh
    \/ \E c \in Cards, s \in Statuses : otherScreenStatusChange(c, s)
    \/ \E l \in loads : getPropertiesServe(l)
    \/ \E l \in loads : loadPropertiesSettled(l)
    \/ \E k \in BagToSet(calls) : updatePropertyStatusServe(k)
    \/ \E k \in BagToSet(calls) : handleStatusChangeResolved(k)
    \/ \E k \in BagToSet(calls) : handleStatusChangeRejected(k)

SpecPending == InitPending /\ [][NextPending]_vars

----------------------------------------------------------------------------
(* Loading alone: the screen mounts, the board is reloaded on focus and by *)
(* pull-to-refresh and other screens store statuses; no card is touched.   *)

NextLoad ==
    \/ focusEffect
    \/ onRefresh
    \/ \E c \in Cards, s \in Statuses : otherScreenStatusChange(c, s)
    \/ \E l \in loads : getPropertiesServe(l)
    \/ \E l \in loads : loadPropertiesSettled(l)

SpecLoad == Init /\ [][NextLoad]_vars

----------------------------------------------------------------------------
(* Vocabulary of the properties *)

(* The render the oldest queued handleDragEnd was queued from. *)
Released == Head(endQueue)

(* The step is a run of handleDragEnd that finds a session. *)
ReleaseStep ==
    /\ endQueue # << >>
    /\ endQueue' = Tail(endQueue)
    /\ Released.draggingProperty # NoProperty

(* The step issues updatePropertyStatus(c, t), and nothing else. *)
CallIssued(c, t) ==
    calls' = calls (+) SetToBag({ [id |-> c, status |-> t, phase |-> "sent"] })

(* The step delivers the rejection of call k to handleStatusChange. *)
RejectionDelivered(k) == k.phase = "err" /\ calls' = calls (-) SetToBag({k})

(* The step delivers the success of call k to handleStatusChange. *)
SuccessDelivered(k) == k.phase = "ok" /\ calls' = calls (-) SetToBag({k})

(* The number of calls for card c that are issued and not settled. *)
InFlight(c) ==
    LET mine == { k \in BagToSet(calls) : k.id = c }
    IN  BagCardinality([ k \in mine |-> calls[k] ])

(* x lies strictly inside, or outside, the scroll-corrected extent. *)
StrictlyInside(x, layout, offset) ==
    x > layout.x - offset /\ x < layout.x - offset + layout.width

Outside(x, layout, offset) ==
    x < layout.x - offset \/ x > layout.x - offset + layout.width

NonOverlapping(layouts) ==
    \A i, j \in 1..Len(layouts) :
        i # j => \/ layouts[i].x + layouts[i].width <= layouts[j].x
                 \/ layouts[j].x + layouts[j].width <= layouts[i].x

(* The release step treats status t as the column the pointer is over: it  *)
(* issues the one call for t, or none when the session's card has t.       *)
ResolvesTo(t) ==
    IF t = Released.draggingProperty.status
    THEN lastRelease' = "noop" /\ calls' = calls
    ELSE lastRelease' = "commit" /\ CallIssued(Released.draggingProperty.id, t)

ResolvesToNothing == lastRelease' = "miss" /\ calls' = calls

(* The places a status has in a registry. *)
EntriesOf(layouts, status) ==
    { i \in 1..Len(layouts) : layouts[i].status = status }

(* What a registry holds for a status: its extents, without their place. *)
ExtentsOf(layouts, status) ==
    { [x |-> layouts[i].x, width |-> layouts[i].width] :
        i \in EntriesOf(layouts, status) }

----------------------------------------------------------------------------
(* C1: when updatePropertyStatus(c, t) is issued, the card list already    *)
(* shows card c with status t. *)
C1_OptimisticBeforeCall ==
    [][ \A c \in Cards, t \in BoardStatuses :
          CallIssued(c, t) => StatusIn(properties', c) = t ]_vars

C3_SingleFlight == \A c \in Cards : InFlight(c) <= 1

(* C4: a drag session is not left active: once the finger is up and no    *)
(* handleDragEnd is queued, no gesture event is left to be delivered, and  *)
(* the session is over. *)
C4_NoAbandonedSession ==
    (touch = "none" /\ ~pendingEnd) => draggingProperty = NoProperty

(* C4, as a property of fair behaviours: a drag session that has started   *)
(* ends again. *)
C4_SessionEnds == (draggingProperty # NoProperty) ~> (draggingProperty = NoProperty)

(* C5: while a session is active, a long-press on a card leaves the        *)
(* session's card and coordinates as they are. *)
C5_NoNewSessionWhileActive ==
    [][ (draggingProperty # NoProperty /\ touch # "card" /\ touch' = "card")
        => ( /\ draggingProperty' = draggingProperty
             /\ dragX' = dragX
             /\ dragY' = dragY ) ]_vars

(* C6: with pairwise non-overlapping extents, a pointer strictly inside    *)
(* one column's scroll-corrected extent resolves to that column's status   *)
(* and to no other. *)
C6_InsideResolves ==
    [][ (ReleaseStep /\ NonOverlapping(Released.columnLayouts))
        => \A i \in 1..Len(Released.columnLayouts) :
             StrictlyInside(dragX, Released.columnLayouts[i], Released.scrollX)
                => ResolvesTo(Released.columnLayouts[i].status) ]_vars

(* C6 witness: with a non-zero scroll offset and two non-overlapping       *)
(* extents of positive width, a release was resolved to the column         *)
(* registered second and its call issued. *)
C6_Witness ==
    /\ lastRelease = "commit"
    /\ scrollX # 0
    /\ Len(columnLayouts) = 2
    /\ NonOverlapping(columnLayouts)
    /\ \A i \in 1..2 : columnLayouts[i].width > 0
    /\ \E k \in BagToSet(calls) : k.status = columnLayouts[2].status

(* C7: a release whose pointer x is outside every registered               *)
(* scroll-corrected extent resolves to nothing, issues no call and leaves  *)
(* the card list unchanged. *)
C7_MissIsNoOp ==
    [][ ( /\ ReleaseStep
          /\ \A i \in 1..Len(Released.columnLayouts) :
               Outside(dragX, Released.columnLayouts[i], Released.scrollX) )
        => ( /\ ResolvesToNothing
             /\ issued' = issued
             /\ properties' = properties ) ]_vars

(* C7 witness: every column is registered and a release missed them all. *)
C7_Witness ==
    /\ lastRelease = "miss"
    /\ Len(columnLayouts) = Cardinality(RenderedCols)
    /\ calls = EmptyBag
    /\ issued = 0

(* C8 as stated: a release over the column of the status the card has in   *)
(* the card list at release time issues no call and changes no status. *)
C8_NoCallForListStatus ==
    [][ ( /\ ReleaseStep
          /\ targetColumn(dragX, Released.columnLayouts, Released.scrollX)
               # NoStatus
          /\ targetColumn(dragX, Released.columnLayouts, Released.scrollX)
               = StatusIn(properties, Released.draggingProperty.id) )
        => (calls' = calls /\ properties' = properties) ]_vars

(* C8, what handleDragEnd does ensure: a release over the column of the    *)
(* status the card had when its drag started (the status of the session's  *)
(* copy of the card) issues no call and changes no status. *)
C8_NoCallForSessionStatus ==
    [][ ( /\ ReleaseStep
          /\ \E i \in 1..Len(Released.columnLayouts) :
               /\ ~Outside(dragX, Released.columnLayouts[i], Released.scrollX)
               /\ \A j \in 1..(i - 1) :
                    Outside(dragX, Released.columnLayouts[j], Released.scrollX)
               /\ Released.columnLayouts[i].status
                    = Released.draggingProperty.status )
        => ( /\ calls' = calls
             /\ issued' = issued
             /\ properties' = properties
             /\ lastRelease' = "noop" ) ]_vars

(* C9: resolving pointer x with scroll offset s gives what resolving       *)
(* pointer x + s with offset 0 gives: the same status or the same miss. *)
C9_ScrollCorrectionLaw ==
    [][ ReleaseStep
        => LET t == targetColumn(dragX + Released.scrollX,
                                 Released.columnLayouts, 0)
           IN  IF t = NoStatus THEN ResolvesToNothing ELSE ResolvesTo(t) ]_vars

(* C9 witness: releases were resolved with the largest scroll offset, to a *)
(* column whose extent does not contain 0 once corrected. *)
C9_Witness ==
    /\ scrollX = 10
    /\ lastRelease = "commit"
    /\ \E k \in BagToSet(calls) :
         \E i \in 1..Len(columnLayouts) :
            /\ columnLayouts[i].status = k.status
            /\ columnLayouts[i].x = 20

(* C10: the number of alerts goes up by one in the step that delivers a    *)
(* rejection to handleStatusChange, and changes in no other step. *)
C10_OneAlertPerRejection ==
    [][ alerts' = alerts +
          (IF \E k \in BagToSet(calls) : RejectionDelivered(k) THEN 1 ELSE 0) ]_vars

(* C10 witness: of two commits one was rejected and one succeeded, and one *)
(* alert is up. *)
C10_Witness ==
    /\ issued = 2
    /\ calls = EmptyBag
    /\ alerts = 1
    /\ properties # filtered(getPropertiesResult(InitialTable))

----------------------------------------------------------------------------
(* C11: a drag that the platform cancels costs nothing: the handleDragEnd  *)
(* that a cancelled pan queues issues no updatePropertyStatus call and     *)
(* changes no card's status. *)
C11_CancellationIsFree ==
    [][ (ReleaseStep /\ ~Released.success)
        => ( /\ calls' = calls
             /\ issued' = issued
             /\ properties' = properties ) ]_vars

(* C12: once the drag of the last long-press has issued its commit and     *)
(* every call has settled, the card list differs from the list before      *)
(* that long-press in the status of the dragged card at most. *)
C12_OneStatusPerDrag ==
    (lastRelease = "commit" /\ calls = EmptyBag /\ ~pendingEnd)
        => properties = withStatus(atPress.list, atPress.id,
                                   StatusIn(properties, atPress.id))

(* C13: when every issued updatePropertyStatus call has settled, each      *)
(* card of the list has the status the backend holds for it. *)
C13_ConsistentWhenSettled ==
    (~loading /\ calls = EmptyBag)
        => \A c \in ListIds : StatusIn(properties, c) = backend[c]

(* C14: the session is cleared only when no call for its card is left      *)
(* unsettled, and no drag starts while a call is unsettled. *)
C14_ResolvingUntilSettled ==
    [][ /\ (draggingProperty # NoProperty /\ draggingProperty' = NoProperty)
            => \A k \in BagToSet(calls') : k.id # draggingProperty.id
        /\ (touch # "card" /\ touch' = "card") => calls = EmptyBag ]_vars

(* C15: in the step that delivers the success of the call for card c with  *)
(* target t, the list comes to show c with status t, if c is in the list. *)
C15_SuccessShowsTarget ==
    [][ \A k \in BagToSet(calls) :
          SuccessDelivered(k)
            => StatusIn(properties', k.id) \in { k.status, NoStatus } ]_vars

(* C15 witness: every call has succeeded and a card shows, and the backend *)
(* holds, a status other than the one the card was loaded with. *)
C15_Witness ==
    /\ issued > 0
    /\ calls = EmptyBag
    /\ alerts = 0
    /\ \E c \in ListIds :
         /\ StatusIn(properties, c) # InitialTable[c]
         /\ StatusIn(properties, c) = backend[c]

(* C16: a release whose handleDragEnd issues a call issues exactly one,   *)
(* for the session that is active, never again for a session an earlier    *)
(* end event has already ended; and the delivery of a rejection issues     *)
(* none. *)
C16_OneCallPerRelease ==
    [][ /\ (ReleaseStep /\ Released.success /\ issued' # issued)
            => ( /\ issued' = issued + 1
                 /\ draggingProperty = Released.draggingProperty )
        /\ \A k \in BagToSet(calls) :
             RejectionDelivered(k) => issued' = issued ]_vars

(* C17: the scroll offset does not change while a session is active, and   *)
(* the offset a release is resolved with is the offset of the moment its   *)
(* session started and the offset reported last. *)
C17_OffsetStableWhileActive ==
    [][ /\ draggingProperty # NoProperty => scrollX' = scrollX
        /\ ReleaseStep => ( /\ Released.scrollX = atPress.scrollX
                            /\ Released.scrollX = scrollX ) ]_vars

(* C17 witness: a drag that started on the scrolled board has been         *)
(* released and resolved to a column. *)
C17_Witness ==
    /\ lastRelease = "commit"
    /\ atPress.scrollX # 0
    /\ scrollX = atPress.scrollX
    /\ draggingProperty = NoProperty

(* C18: the registry lists the columns from left to right, in whatever     *)
(* order their layout callbacks fired. *)
C18_RegistryLeftToRight ==
    \A i, j \in 1..Len(columnLayouts) :
        i < j => ColumnOf(columnLayouts[i].status) < ColumnOf(columnLayouts[j].status)

(* C18, the tie-break alone: a release resolves to the first entry of the  *)
(* registry whose extent contains the pointer. *)
C18_FirstMatchWins ==
    [][ ReleaseStep
        => \A i \in 1..Len(Released.columnLayouts) :
             ( /\ ~Outside(dragX, Released.columnLayouts[i], Released.scrollX)
               /\ \A j \in 1..(i - 1) :
                    Outside(dragX, Released.columnLayouts[j], Released.scrollX) )
               => ResolvesTo(Released.columnLayouts[i].status) ]_vars

(* C19: a pointer exactly on the scroll-corrected origin of a column, or   *)
(* exactly on origin + width, matches the column; a pointer one unit       *)
(* before the origin or one unit after origin + width does not. *)
C19_ClosedExtents ==
    [][ ReleaseStep
        => \A i \in 1..Len(Released.columnLayouts) :
             LET layouts == Released.columnLayouts
                 origin == layouts[i].x - Released.scrollX
                 end == origin + layouts[i].width
             IN  /\ ( /\ dragX = origin \/ dragX = end
                      /\ \A j \in 1..(i - 1) :
                           Outside(dragX, layouts[j], Released.scrollX) )
                       => ResolvesTo(layouts[i].status)
                 /\ ( /\ dragX = origin - 1 \/ dragX = end + 1
                      /\ \A j \in 1..Len(layouts) :
                           j # i => Outside(dragX, layouts[j], Released.scrollX) )
                       => ResolvesToNothing ]_vars

(* C19 witness: the only registered extent has width 0, so that its origin *)
(* is its end, the board is scrolled, and a release was resolved to it. *)
C19_Witness ==
    /\ lastRelease = "commit"
    /\ Len(columnLayouts) = 1
    /\ columnLayouts[1].width = 0
    /\ scrollX # 0

(* C20: after onColumnLayout(status, x, width) the registry has one entry  *)
(* for status, holding x and width; every other status has the entries it  *)
(* had; and registering the same extent again changes nothing. *)
C20_LastWriteWins ==
    [][ \A e \in Extents :
          onColumnLayout(e.status, e.x, e.width)
            => ( /\ Cardinality(EntriesOf(columnLayouts', e.status)) = 1
                 /\ ExtentsOf(columnLayouts', e.status)
                      = { [x |-> e.x, width |-> e.width] }
                 /\ \A t \in BoardStatuses \ { e.status } :
                      /\ EntriesOf(columnLayouts', t) = EntriesOf(columnLayouts, t)
                      /\ ExtentsOf(columnLayouts', t) = ExtentsOf(columnLayouts, t)
                 /\ withLayout(columnLayouts', e.status, e.x, e.width)
                      = columnLayouts' ) ]_vars

(* C20 witness: both columns are registered, the one registered first      *)
(* with an extent to the right of the other's. *)
C20_Witness ==
    /\ Len(columnLayouts) = 2
    /\ columnLayouts[1].x = 20
    /\ columnLayouts[1].width = 0
    /\ columnLayouts[2].x = 0
    /\ columnLayouts[2].width = 10

----------------------------------------------------------------------------
(* The place the style sheet gives column i contains the page x, on the    *)
(* board scrolled to offset. *)
OverStyledColumn(i, x, offset) ==
    x + offset >= ColumnX(i) /\ x + offset <= ColumnX(i) + ColumnWidth

(* C21: a release never resolves to a status that has no entry in the      *)
(* registry; a release over the place of a column that has not reported    *)
(* its layout resolves to nothing, issues no call, changes no status and   *)
(* raises no alert. *)
C21_UnregisteredUnselectable ==
    [][ ReleaseStep
        => /\ \A c \in Cards, t \in Statuses :
                CallIssued(c, t) => EntriesOf(Released.columnLayouts, t) # {}
           /\ \A i \in RenderedCols :
                ( /\ EntriesOf(Released.columnLayouts, availableStatuses[i]) = {}
                  /\ OverStyledColumn(i, dragX, Released.scrollX) )
                => ( /\ ResolvesToNothing
                     /\ issued' = issued
                     /\ properties' = properties
                     /\ alerts' = alerts ) ]_vars

(* C21 witness: a release over the place of a column that had not          *)
(* reported its layout, while another column had, was resolved to nothing. *)
C21_Witness ==
    /\ lastRelease = "miss"
    /\ columnLayouts # << >>
    /\ draggingProperty = NoProperty
    /\ \E i \in RenderedCols :
         /\ EntriesOf(columnLayouts, availableStatuses[i]) = {}
         /\ OverStyledColumn(i, dragX, scrollX)

----------------------------------------------------------------------------
(* C22: no card of the list has status Irrelevant or Purchased, the        *)
(* registry has no entry for either, and no updatePropertyStatus call has  *)
(* either as its target. *)
C22_NoTerminalOnBoard ==
    /\ \A i \in 1..Len(properties) : ~IsTerminal(properties[i].status)
    /\ \A i \in 1..Len(columnLayouts) : ~IsTerminal(columnLayouts[i].status)
    /\ \A k \in BagToSet(calls) : ~IsTerminal(k.status)

(* C22 witness: another screen has stored a terminal status for a card,    *)
(* the board has been reloaded since and does not show the card. *)
C22_Witness ==
    /\ loads = {}
    /\ loadsIssued > 1
    /\ \E c \in Cards : IsTerminal(backend[c]) /\ c \notin ListIds
    /\ properties # << >>

----------------------------------------------------------------------------
(* The unsettled calls of a bag that are for card c, with their number. *)
CallsFor(bag, c) == { << k, bag[k] >> : k \in { x \in BagToSet(bag) : x.id = c } }

(* C23: while a call for card a is unsettled, a long-press on another      *)
(* card b of the idle board starts a session; the release of b's session   *)
(* over another column issues b's call; and the delivery of the outcome    *)
(* of a's call, success or rejection, leaves b's calls and b's status in   *)
(* the list as they are. *)
C23_NotBlockedByPending ==
    [][ \A a, b \in Cards :
          (a # b /\ InFlight(a) > 0)
          => /\ ( /\ jsThreadFree
                  /\ ~loading
                  /\ touch = "none"
                  /\ draggingProperty = NoProperty
                  /\ b \in ListIds
                  /\ issued < MaxCalls )
                => ENABLED onLongPress(b)
             /\ (ReleaseStep /\ Released.draggingProperty.id = b)
                => LET t == targetColumn(dragX, Released.columnLayouts,
                                         Released.scrollX)
                   IN  (t # NoStatus /\ t # Released.draggingProperty.status)
                         => ( /\ CallIssued(b, t)
                              /\ issued' = issued + 1
                              /\ CallsFor(calls', a) = CallsFor(calls, a) )
             /\ \A k \in BagToSet(calls) :
                  ( /\ k.id = a
                    /\ SuccessDelivered(k) \/ RejectionDelivered(k) )
                  => ( /\ CallsFor(calls', b) = CallsFor(calls, b)
                       /\ StatusIn(properties', b) = StatusIn(properties, b) ) ]_vars

(* C23 witness: card b was long-pressed and released while the call for   *)
(* card a was unsettled; a's call has been answered with a rejection and   *)
(* b's call is on its way. *)
C23_Witness ==
    /\ draggingProperty = NoProperty
    /\ \E ka, kb \in BagToSet(calls) :
         /\ ka.id # kb.id
         /\ ka.phase = "err"
         /\ kb.phase = "sent"
         /\ kb.id = atPress.id
         /\ StatusIn(atPress.list, ka.id) # ka.status

----------------------------------------------------------------------------
(* C24: after the rejection of a call for card c with target t has been    *)
(* delivered, a long-press on c on the idle board starts a session, and    *)
(* the release of a session of c over the column of t issues a new call    *)
(* for c and t (unless the session's card has status t). *)
C24_RedragAfterRejection ==
    [][ \A c \in Cards :
          lastRejected.id = c
          => /\ ( /\ jsThreadFree
                  /\ ~loading
                  /\ touch = "none"
                  /\ draggingProperty = NoProperty
                  /\ c \in ListIds
                  /\ issued < MaxCalls )
                => ENABLED onLongPress(c)
             /\ ( /\ ReleaseStep
                  /\ Released.draggingProperty.id = c
                  /\ targetColumn(dragX, Released.columnLayouts,
                                  Released.scrollX) = lastRejected.status
                  /\ Released.draggingProperty.status # lastRejected.status )
                => ( /\ CallIssued(c, lastRejected.status)
                     /\ issued' = issued + 1 ) ]_vars

(* C24 witness: a call was rejected and the alert raised; after that the   *)
(* same card was long-pressed and released over the same column, and the   *)
(* second call for the same target is on its way. *)
C24_Witness ==
    /\ alerts = 1
    /\ issued = lastRejected.issued + 1
    /\ lastRelease = "commit"
    /\ atPress.id = lastRejected.id
    /\ calls = SetToBag({ [ id |-> lastRejected.id,
                            status |-> lastRejected.status,
                            phase |-> "sent" ] })

----------------------------------------------------------------------------
(* C25: the long-press puts the live coordinates on the centre of the      *)
(* card, and after every onUpdate the live coordinates are that origin     *)
(* plus the translation the event reports. *)
C25_CoordinatesFollowGesture ==
    [][ /\ (touch # "card" /\ touch' = "card")
            => ( /\ dragX' = atPress'.x
                 /\ dragY' = atPress'.y
                 /\ atPress'.x = CardCentreX(ColumnOf(draggingProperty'.status),
                                             scrollX) )
        /\ \A t \in Translations :
             panOnUpdate(t[1], t[2])
               => ( /\ dragX' = atPress.x + t[1]
                    /\ dragY' = atPress.y + t[2] ) ]_vars

(* C25, what the callbacks do ensure: the law holds for the pan that       *)
(* follows the long-press, while no pan of the session has ended. *)
C25_FirstPanFollowsGesture ==
    [][ \A t \in Translations :
          (endQueue = << >> /\ panOnUpdate(t[1], t[2]))
            => ( /\ dragX' = atPress.x + t[1]
                 /\ dragY' = atPress.y + t[2] ) ]_vars

----------------------------------------------------------------------------
(* C26: once a session has ended and its springs have come to rest, the    *)
(* drag scale is 1 and every card's opacity is 1: no card stays faded. *)
C26_VisualsReverted ==
    ( /\ draggingProperty = NoProperty
      /\ touch = "none"
      /\ ~pendingEnd
      /\ ~springsRunning )
    => ( /\ dragScale = 10
         /\ \A c \in Cards : opacity[c] = 10 )


----------------------------------------------------------------------------
(* C27: with no other screen editing, once the commit of the release and   *)
(* the reloads of the board have all settled, every card of the list has   *)
(* the status the backend holds for it. *)
C27_ReloadKeepsCommit ==
    ( /\ otherEdits = 0
      /\ ~pendingEnd
      /\ calls = EmptyBag
      /\ loads = {} )
    => \A c \in ListIds : StatusIn(properties, c) = backend[c]


----------------------------------------------------------------------------
(* The step is a run of handleDragEnd. *)
DragEndStep == endQueue # << >> /\ endQueue' = Tail(endQueue)

(* C28: a run of handleDragEnd while a session is active ends the session  *)
(* in that step, whatever the release resolves to, and the board scrolls   *)
(* again; a run while no session is active changes nothing and issues no   *)
(* call. *)
C28_EndsSessionAtOnce ==
    [][ DragEndStep
        => IF draggingProperty # NoProperty
           THEN draggingProperty' = NoProperty /\ scrollEnabled'
           ELSE /\ calls' = calls
                /\ issued' = issued
                /\ properties' = properties
                /\ draggingProperty' = draggingProperty
                /\ lastRelease' = lastRelease ]_vars

(* C28, what handleDragEnd does ensure: the same, for the session of the   *)
(* render the call was queued from. *)
C28_EndsSessionOfItsRender ==
    [][ DragEndStep
        => IF Released.draggingProperty # NoProperty
           THEN /\ draggingProperty' = NoProperty
                /\ scrollEnabled'
                /\ lastRelease' \in { "miss", "noop", "commit" }
           ELSE /\ calls' = calls
                /\ issued' = issued
                /\ properties' = properties
                /\ draggingProperty' = draggingProperty
                /\ lastRelease' = lastRelease ]_vars


----------------------------------------------------------------------------
(* C29: the step that delivers the success of a call for card c with       *)
(* target t keeps the length and the order of the list as it is then,      *)
(* gives status t to the entries with id c and leaves every other entry    *)
(* as it is; a card that is not in the list is not added. *)
C29_AppliedById ==
    [][ \A k \in BagToSet(calls) :
          SuccessDelivered(k)
            => /\ Len(properties') = Len(properties)
               /\ \A i \in 1..Len(properties) :
                    /\ properties'[i].id = properties[i].id
                    /\ properties'[i].status =
                         IF properties[i].id = k.id
                         THEN k.status ELSE properties[i].status
               /\ (k.id \notin ListIds) => properties' = properties ]_vars

(* C29 witness: another screen stored a terminal status for the released   *)
(* card, a reload read it and took the card off the list; the release's    *)
(* call was applied by the backend after that and its success delivered,   *)
(* and the card is not in the list. *)
C29_Witness ==
    /\ issued = 1
    /\ calls = EmptyBag
    /\ alerts = 0
    /\ loads = {}
    /\ otherEdits = 1
    /\ atPress.id \notin ListIds
    /\ ~IsTerminal(backend[atPress.id])
    /\ backend[atPress.id] # StatusIn(atPress.list, atPress.id)


----------------------------------------------------------------------------
(* C30: the step in which loadProperties continues after getProperties     *)
(* has settled leaves loading and refreshing false; after a rejection the  *)
(* list is what it was and no alert is raised; after a success the list    *)
(* is the filtered result. *)
C30_LoadingEnds ==
    [][ \A l \in loads :
          (l.phase # "sent" /\ loads' = loads \ {l})
            => /\ ~loading'
               /\ ~refreshing'
               /\ l.phase = "err"
                    => (properties' = properties /\ alerts' = alerts)
               /\ l.phase = "ok" => properties' = filtered(l.data) ]_vars

(* C30 witness: the load of the mount and a reload after it were both      *)
(* rejected: the spinners are off, the list is as empty as it was and no   *)
(* alert is up, while the backend holds cards for the board. *)
C30_Witness ==
    /\ ~loading
    /\ ~refreshing
    /\ loads = {}
    /\ loadsIssued = 2
    /\ alerts = 0
    /\ properties = << >>
    /\ \E c \in Cards : ~IsTerminal(backend[c])

=============================================================================
